---- MODULE Spec2Model ----
(***************************************************************************)
(* LOAD DATA LOCAL INFILE handling of the MySQL driver (infile.go):        *)
(* the file and reader registries, the request dispatcher                  *)
(* handleInFileRequest and the programmatic row buffer                     *)
(* (loadDataStart / loadDataWrite / loadDataTerminate).                    *)
(*                                                                         *)
(* Strings and byte slices are sequences of byte values (ASCII codes).     *)
(* Errors are strings; "nil" is the nil error and "EOF" is io.EOF.         *)
(***************************************************************************)
EXTENDS Integers, Sequences, FiniteSets, TLC

\* ---------------------------------------------------------------- bounds
\* longest content, in bytes, of a file or of a reader stream
MaxContent == 2
\* number of reads returning (0, nil) that one stream may produce
MaxZeroReads == 1
\* most bytes mc.loadData is let to hold
MaxBuf == 12

\* ------------------------------------------------------- integers of Go
\* Go's integer division truncates toward zero
GoDiv(a, b) == IF a >= 0 THEN a \div b ELSE -((-a) \div b)

\* 16 * 1024, the packet size of handleInFileRequest and loadDataStart
PacketSize16K == 16 * 1024

\* ---------------------------------------------------------- byte strings
Quote == 34
Slash == 47
\* "Reader::"
ReaderPrefix == <<82, 101, 97, 100, 101, 114, 58, 58>>
\* "Data::Data"
DataData == <<68, 97, 116, 97, 58, 58, 68, 97, 116, 97>>
\* the 4 reserved header bytes of a packet
Header == <<0, 0, 0, 0>>

\* s[i:i+len(sub)] == sub, i counted from 0
HasAt(s, sub, i) ==
    /\ i + Len(sub) <= Len(s)
    /\ \A k \in 1..Len(sub) : s[i + k] = sub[k]

\* strings.Index: the index of the first instance of sub in s, or -1
Index(s, sub) ==
    IF \E i \in 0..Len(s) : HasAt(s, sub, i)
    THEN CHOOSE i \in 0..Len(s) :
            HasAt(s, sub, i) /\ \A j \in 0..(i - 1) : ~HasAt(s, sub, j)
    ELSE -1

RECURSIVE TrimLeft(_, _)
TrimLeft(s, c) ==
    IF s # <<>> /\ Head(s) = c THEN TrimLeft(Tail(s), c) ELSE s

RECURSIVE TrimRight(_, _)
TrimRight(s, c) ==
    IF s # <<>> /\ s[Len(s)] = c
    THEN TrimRight(SubSeq(s, 1, Len(s) - 1), c)
    ELSE s

\* strings.Trim(s, `"`)
Trim(s, c) == TrimRight(TrimLeft(s, c), c)

\* the payload of a packet: what follows the 4 header bytes
Payload(p) == SubSeq(p, 5, Len(p))

Min(a, b) == IF a < b THEN a ELSE b

\* ------------------------------------------------------------ the inputs
\* request names the server may send
NameReaderA == ReaderPrefix \o <<97>>
NameAbsReaderA == <<Slash, 120, Slash>> \o ReaderPrefix \o <<97>>
NameInnerReader == <<120>> \o ReaderPrefix \o <<97>>
NameFile == <<Slash, 102>>
NameQuotedFile == <<Quote, Slash, 102, Quote>>

RequestNames ==
    {NameReaderA, NameAbsReaderA, NameInnerReader, NameFile, NameQuotedFile}

\* paths the application registers and deregisters
FilePaths == {NameFile, NameQuotedFile}
\* reader names the application registers and deregisters
ReaderNames == {<<97>>}
\* reader factories: one returning a plain io.Reader, one returning an
\* io.ReadCloser, one returning nil
Handlers == {"hPlain", "hCloser", "hNil"}

\* the content of a file or stream: its first n bytes are 97, 98, ...
Content(n) == [i \in 1..n |-> 96 + i]
Contents == {Content(n) : n \in 0..MaxContent}

\* mc.maxWriteSize of the connections that serve file and reader requests
DispatchWriteSizes == {-3, 0, 1, 40000}
\* mc.maxWriteSize of the connections that run programmatic loads
LoadWriteSizes == {-3, 0, 1, 5, 13, 40000}

\* -------------------------------------------------------------- the state
VARIABLES
    fileRegister,     \* var fileRegister map[string]bool
    readerRegister,   \* var readerRegister map[string]func() io.Reader
    regLog,           \* the last registry call made for each path and name
    fileRegisterLock,   \* var fileRegisterLock sync.RWMutex
    readerRegisterLock, \* var readerRegisterLock sync.RWMutex
    goroutines,       \* position of each goroutine inside a registry access
    committed,        \* the registries as the last completed call left them
    fnIn,             \* the argument of the encoding function under study
    fnOut,            \* its result
    maxWriteSize,     \* mc.maxWriteSize
    allowAllFiles,    \* mc.cfg.AllowAllFiles
    op,               \* the operation the connection runs or ran last
    pc,               \* position of the connection in that operation
    name,             \* the local name of handleInFileRequest
    packetSize,       \* the local packetSize
    rdr,              \* the local rdr
    err,              \* the named result err
    closer,           \* whether a deferredClose was deferred in this call
    trace,            \* what the current call did to its collaborators
    handles,          \* files and closeable streams that are open
    zeroReads,        \* reads of the current stream that returned (0, nil)
    inLoadData,       \* mc.inLoadData
    maxLoadDataSize,  \* mc.maxLoadDataSize
    loadData,         \* mc.loadData (bytes.Buffer)
    appended,         \* a row was appended since the last loadDataStart
    sinceFlush        \* the rows appended since the last flush of the current load

vars == <<fileRegister, readerRegister, regLog, fileRegisterLock, readerRegisterLock,
          goroutines, committed, fnIn, fnOut, maxWriteSize, allowAllFiles, op, pc, name,
          packetSize, rdr, err, closer, trace, handles, zeroReads,
          inLoadData, maxLoadDataSize, loadData, appended, sinceFlush>>

lockVars == <<fileRegisterLock, readerRegisterLock, goroutines>>
fnVars == <<fnIn, fnOut>>
regVars == <<fileRegister, readerRegister, regLog, committed, lockVars, fnVars>>
cfgVars == <<maxWriteSize, allowAllFiles>>
callVars == <<op, pc, name, packetSize, rdr, err, closer, trace, handles, zeroReads>>
loadVars == <<inLoadData, maxLoadDataSize, loadData, appended, sinceFlush>>

\* a Go map: nil until the lazy initialisation, then keys and their values
NilMap == [isNil |-> TRUE, m |-> [k \in {} |-> TRUE]]
MapSet(reg, key, val) ==
    [isNil |-> FALSE,
     m |-> [k \in (DOMAIN reg.m) \cup {key} |-> IF k = key THEN val ELSE reg.m[k]]]

\* a sync.RWMutex nobody holds
Unlocked == [writer |-> FALSE, readers |-> 0]

\* the goroutines that call the registry functions and run connections
MaxGoroutines == 3
Goroutines == 1..MaxGoroutines

\* a goroutine outside every registry access
IdleG == [pc |-> "idle", call |-> "none", key |-> <<>>, val |-> "none", seen |-> "none"]

\* rdr: nil, or a stream with the bytes it has not returned yet
NilRdr == [isNil |-> TRUE, kind |-> "none", rest |-> <<>>]
Stream(kind, content) == [isNil |-> FALSE, kind |-> kind, rest |-> content]

\* one entry of trace
Ev(ev, data, e) == [ev |-> ev, data |-> data, e |-> e]

\* ---------------------------------------------------------- the registries
\* a path without the quotes around it: from its first to its last
\* character that is not a quote
Unquoted(p) ==
    LET keep == {i \in 1..Len(p) : p[i] # Quote}
    IN  IF keep = {} THEN <<>>
        ELSE SubSeq(p, CHOOSE i \in keep : \A j \in keep : i <= j,
                       CHOOSE i \in keep : \A j \in keep : i >= j)

\* regLog with call c noted as the last one for key k of registry r
Logged(log, r, k, c) ==
    [log EXCEPT ![r] = [x \in (DOMAIN log[r]) \cup {k} |->
                          IF x = k THEN c ELSE log[r][x]]]

\* no call made yet
EmptyLog == [file |-> [k \in {} |-> "none"], reader |-> [k \in {} |-> "none"]]

\* the last call made for key k of registry r, "none" when there is none
LastCall(log, r, k) == IF k \in DOMAIN log[r] THEN log[r][k] ELSE "none"

\* the key is deleted nowhere
MapDelete_keep(reg, key) == reg

\* lines 54 and 88: delete(map, key)
MapDelete(reg, key) ==
    [isNil |-> reg.isNil,
     m |-> [k \in (DOMAIN reg.m) \ {key} |-> reg.m[k]]]

RegisterLocalFile(filePath) ==
    /\ fileRegister' = MapSet(fileRegister, Trim(filePath, Quote), TRUE)
    /\ regLog' = Logged(regLog, "file", Unquoted(filePath), "register")
    /\ committed' = [committed EXCEPT !.file = fileRegister']
    /\ UNCHANGED <<readerRegister, lockVars, fnVars, cfgVars, callVars, loadVars>>

DeregisterLocalFile(filePath) ==
    /\ fileRegister' = MapDelete(fileRegister, Trim(filePath, Quote))
    /\ regLog' = Logged(regLog, "file", Unquoted(filePath), "deregister")
    /\ committed' = [committed EXCEPT !.file = fileRegister']
    /\ UNCHANGED <<readerRegister, lockVars, fnVars, cfgVars, callVars, loadVars>>

RegisterReaderHandler(n, handler) ==
    /\ readerRegister' = MapSet(readerRegister, n, handler)
    /\ regLog' = Logged(regLog, "reader", n, handler)
    /\ committed' = [committed EXCEPT !.reader = readerRegister']
    /\ UNCHANGED <<fileRegister, lockVars, fnVars, cfgVars, callVars, loadVars>>

DeregisterReaderHandler(n) ==
    /\ readerRegister' = MapDelete(readerRegister, n)
    /\ regLog' = Logged(regLog, "reader", n, "deregister")
    /\ committed' = [committed EXCEPT !.reader = readerRegister']
    /\ UNCHANGED <<fileRegister, lockVars, fnVars, cfgVars, callVars, loadVars>>

\* the maximum write size is passed over
InitialPacketSize_16K(mws) == PacketSize16K

\* ------------------------------------------------- handleInFileRequest
\* lines 102-105: 16KB, or mc.maxWriteSize when that is smaller
InitialPacketSize(mws) == IF mws < PacketSize16K THEN mws ELSE PacketSize16K

\* the whole of mc.maxWriteSize is taken, not its half
LoadThreshold_whole(mws) == IF mws < PacketSize16K THEN mws ELSE PacketSize16K

\* lines 193-196: 16KB, or half of mc.maxWriteSize when that is smaller
LoadThreshold(mws) ==
    IF GoDiv(mws, 2) < PacketSize16K THEN GoDiv(mws, 2) ELSE PacketSize16K

\* line 111: "Reader::" at the start of the name or right after a '/'
IsReaderName(n) ==
    LET idx == Index(n, ReaderPrefix)
    IN  idx = 0 \/ (idx > 0 /\ n[idx] = Slash)

\* line 113: name[idx+8:]
StripReaderPrefix(n) == SubSeq(n, Index(n, ReaderPrefix) + 8 + 1, Len(n))

\* line 134: fileRegister[name], false for a missing key and for a nil map
FileRegistered(reg, key) == IF key \in DOMAIN reg.m THEN reg.m[key] ELSE FALSE

\* every file is allowed
IsFileAllowed_any(allowAll, fr) == TRUE

\* line 136: mc.cfg.AllowAllFiles || fr
IsFileAllowed(allowAll, fr) == allowAll \/ fr

\* lines 146-148: the packet size shrinks to the size of a smaller file
FilePacketSize(size, fileSize) == IF fileSize < size THEN fileSize ELSE size

\* no stream is taken for closeable
IsCloser_never(handler) == FALSE

\* line 122: rdr.(io.Closer), by the factory that made the stream
IsCloser(handler) == handler = "hCloser"

\* the loop is entered whatever the error
EntersLoop_anyErr(e, size) == size > 0

\* line 158: the read loop is entered
EntersLoop(e, size) == e = "nil" /\ size > 0

\* io.EOF is kept as the error of the call
AfterLoopErr_keepEOF(e) == e

\* lines 169-171: io.EOF ends the loop without an error
AfterLoopErr(e) == IF e = "EOF" THEN "nil" ELSE e

\* the result is read whatever the error
ReadsResult_always(e) == TRUE

\* a packet is drained whatever the error
ReadsResult_never(e) == FALSE

\* line 183: the OK packet is read, or else one packet is drained
ReadsResult(e) == e = "nil"

\* the close error replaces the error of the call
deferredClose_override(e, closeErr) == IF closeErr # "nil" THEN closeErr ELSE e

\* lines 92-97
deferredClose(e, closeErr) == IF e = "nil" THEN closeErr ELSE e

\* loadDataStart, lines 191-199
loadDataStart ==
    /\ inLoadData' = TRUE
    /\ maxLoadDataSize' = LoadThreshold(maxWriteSize)
    /\ loadData' = loadData \o Header

\* a return statement of handleInFileRequest: the result is set, then the
\* deferred close runs when one was deferred
Return(e, tr) ==
    /\ pc' = "done"
    /\ IF closer
       THEN \E closeErr \in {"nil", "ErrClose"} :
              /\ err' = deferredClose(e, closeErr)
              /\ trace' = Append(tr, Ev("close", <<>>, closeErr))
              /\ handles' = handles - 1
       ELSE /\ err' = e
            /\ trace' = tr
            /\ handles' = handles

\* what one rdr.Read(data[4:]) can return: up to cap of the remaining
\* bytes, with nil, io.EOF (only once the stream is exhausted) or an error
ReadOutcomes(r, cap, zr) ==
    { o \in [n : 0..Min(cap, Len(r.rest)), e : {"nil", "EOF", "ErrRead"}] :
        /\ (o.e = "EOF" => o.n = Len(r.rest))
        /\ (o.n = 0 /\ o.e = "nil" => r.kind # "file" /\ zr < MaxZeroReads) }

\* lines 99-109: entry, for a file or reader name
Call(n) ==
    /\ pc \in {"idle", "done"}
    /\ n # DataData
    /\ op' = "handleInFileRequest"
    /\ name' = n
    /\ packetSize' = InitialPacketSize(maxWriteSize)
    /\ rdr' = NilRdr
    /\ err' = "nil"
    /\ closer' = FALSE
    /\ trace' = <<>>
    /\ zeroReads' = 0
    /\ pc' = "resolve"
    /\ UNCHANGED <<handles, regVars, cfgVars, loadVars>>

\* lines 111-130: the reader registry is read and the handler is called
ResolveReader ==
    /\ pc = "resolve"
    /\ IsReaderName(name)
    /\ LET key == StripReaderPrefix(name)
           inMap == key \in DOMAIN readerRegister.m
           tr == Append(trace, Ev("registry", key, IF inMap THEN "found" ELSE "missing"))
       IN  /\ name' = key
           /\ IF inMap
              THEN LET handler == readerRegister.m[key]
                   IN  /\ trace' = Append(tr, Ev("handler", key, handler))
                       /\ IF handler # "hNil"
                          THEN /\ \E c \in Contents : rdr' = Stream(handler, c)
                               /\ closer' = IsCloser(handler)
                               /\ handles' = IF handler = "hCloser"
                                             THEN handles + 1 ELSE handles
                               /\ err' = "nil"
                          ELSE /\ err' = "ErrReaderNil"
                               /\ UNCHANGED <<rdr, closer, handles>>
              ELSE /\ err' = "ErrReaderNotRegistered"
                   /\ trace' = tr
                   /\ UNCHANGED <<rdr, closer, handles>>
    /\ pc' = IF EntersLoop(err', packetSize) THEN "read" ELSE "term"
    /\ UNCHANGED <<packetSize, zeroReads, op, regVars, cfgVars, loadVars>>

\* lines 131-136 and 151-153: the whitelist is read
CheckFile ==
    /\ pc = "resolve"
    /\ ~IsReaderName(name)
    /\ LET key == Trim(name, Quote)
           fr == FileRegistered(fileRegister, key)
           tr == Append(trace, Ev("whitelist", key,
                                  IF key \in DOMAIN fileRegister.m
                                  THEN "listed" ELSE "unlisted"))
       IN  /\ name' = key
           /\ trace' = tr
           /\ IF IsFileAllowed(allowAllFiles, fr)
              THEN /\ err' = "nil"
                   /\ pc' = "open"
              ELSE /\ err' = "ErrNotRegistered"
                   /\ pc' = IF EntersLoop(err', packetSize) THEN "read" ELSE "term"
    /\ UNCHANGED <<packetSize, rdr, closer, handles, zeroReads,
                   op, regVars, cfgVars, loadVars>>

\* lines 137-150: os.Open, the deferred close, file.Stat
OpenFile ==
    /\ pc = "open"
    /\ \/ /\ err' = "ErrOpen"
          /\ trace' = Append(trace, Ev("open", name, "ErrOpen"))
          /\ UNCHANGED <<rdr, closer, handles, packetSize>>
       \/ /\ closer' = TRUE
          /\ handles' = handles + 1
          /\ \/ /\ err' = "ErrStat"
                /\ trace' = trace \o <<Ev("open", name, "nil"),
                                       Ev("stat", <<>>, "ErrStat")>>
                /\ UNCHANGED <<rdr, packetSize>>
             \/ \E c \in Contents :
                  /\ err' = "nil"
                  /\ rdr' = Stream("file", c)
                  /\ packetSize' = FilePacketSize(packetSize, Len(c))
                  /\ trace' = trace \o <<Ev("open", name, "nil"),
                                         Ev("stat", c, "nil")>>
    /\ pc' = IF EntersLoop(err', packetSize') THEN "read" ELSE "term"
    /\ UNCHANGED <<name, zeroReads, op, regVars, cfgVars, loadVars>>

\* the loop is left after its first read
LoopContinues_never(e) == FALSE

\* line 160: for err == nil
LoopContinues(e) == e = "nil"

\* lines 161-168: one iteration of the read loop
ReadLoop ==
    /\ pc = "read"
    /\ \E o \in ReadOutcomes(rdr, packetSize, zeroReads) :
         LET bytes == SubSeq(rdr.rest, 1, o.n)
             tr == Append(trace, Ev("read", bytes, o.e))
         IN  /\ rdr' = [rdr EXCEPT !.rest = SubSeq(rdr.rest, o.n + 1, Len(rdr.rest))]
             /\ zeroReads' = IF o.n = 0 /\ o.e = "nil" THEN zeroReads + 1 ELSE zeroReads
             /\ \E ioErr \in {"nil", "ErrSend"} :
                  LET trs == IF o.n > 0
                             THEN Append(tr, Ev("send", Header \o bytes, ioErr))
                             ELSE tr
                  IN  IF o.n > 0 /\ ioErr # "nil"
                      THEN Return(ioErr, trs)
                      ELSE /\ trace' = trs
                           /\ handles' = handles
                           /\ IF LoopContinues(o.e)
                              THEN err' = "nil" /\ pc' = "read"
                              ELSE err' = AfterLoopErr(o.e) /\ pc' = "term"
    /\ UNCHANGED <<name, packetSize, closer, op, regVars, cfgVars, loadVars>>

\* the empty packet, with a failed send passed over
SendTermination_ignoreError ==
    /\ pc = "term"
    /\ \E ioErr \in {"nil", "ErrSend"} :
         /\ trace' = Append(trace, Ev("send", SubSeq(Header, 1, 4), ioErr))
         /\ pc' = "final"
         /\ UNCHANGED <<err, handles>>
    /\ UNCHANGED <<name, packetSize, rdr, closer, zeroReads,
                   op, regVars, cfgVars, loadVars>>

\* lines 174-180: the empty packet
SendTermination ==
    /\ pc = "term"
    /\ \E ioErr \in {"nil", "ErrSend"} :
         LET tr == Append(trace, Ev("send", SubSeq(Header, 1, 4), ioErr))
         IN  IF ioErr # "nil"
             THEN Return(ioErr, tr)
             ELSE /\ trace' = tr
                  /\ pc' = "final"
                  /\ UNCHANGED <<err, handles>>
    /\ UNCHANGED <<name, packetSize, rdr, closer, zeroReads,
                   op, regVars, cfgVars, loadVars>>

\* lines 182-185: return mc.readResultOK()
ReadResultOK ==
    /\ pc = "final"
    /\ ReadsResult(err)
    /\ \E r \in {"nil", "ErrResult"} :
         Return(r, Append(trace, Ev("readResultOK", <<>>, r)))
    /\ UNCHANGED <<name, packetSize, rdr, closer, zeroReads,
                   op, regVars, cfgVars, loadVars>>

\* lines 187-188: mc.readPacket(); return err
DrainPacket ==
    /\ pc = "final"
    /\ ~ReadsResult(err)
    /\ \E r \in {"nil", "ErrDrain"} :
         Return(err, Append(trace, Ev("readPacket", <<>>, r)))
    /\ UNCHANGED <<name, packetSize, rdr, closer, zeroReads,
                   op, regVars, cfgVars, loadVars>>

\* ------------------------------------------------------ encodedLoadData
\* a driver.Value: its dynamic type t and, by type, a bool b, an integer i,
\* bytes s, a float f or a time tm; isNil marks the nil []byte
\* a float64 by its shortest decimal digits d, read as 0.d times ten to the
\* dp, and its sign; or a NaN or an infinity
Float(kind, neg, d, dp) == [kind |-> kind, neg |-> neg, d |-> d, dp |-> dp]
NoFloat == Float("none", FALSE, <<>>, 0)

\* a time.Time: the days since 0001-01-01 UTC, the second of the day and
\* the nanoseconds
NoTime == [day |-> 0, sod |-> 0, ns |-> 0]

Value(t, isNil, b, i, s) ==
    [t |-> t, isNil |-> isNil, b |-> b, i |-> i, s |-> s, f |-> NoFloat, tm |-> NoTime]
NilValue == Value("nil", TRUE, FALSE, 0, <<>>)
BoolValue(b) == Value("bool", FALSE, b, 0, <<>>)
Int64Value(i) == Value("int64", FALSE, FALSE, i, <<>>)
Uint64Value(i) == Value("uint64", FALSE, FALSE, i, <<>>)
StringValue(s) == Value("string", FALSE, FALSE, 0, s)
BytesValue(s) == Value("bytes", FALSE, FALSE, 0, s)
NilBytesValue == Value("bytes", TRUE, FALSE, 0, <<>>)
Float64Value(f) == [Value("float64", FALSE, FALSE, 0, <<>>) EXCEPT !.f = f]
TimeValue(tm) == [Value("time", FALSE, FALSE, 0, <<>>) EXCEPT !.tm = tm]

Backslash == 92
Newline == 10
Return13 == 13
Tab == 9

\* the decimal digits of a natural number
RECURSIVE Digits(_)
Digits(n) == IF n < 10 THEN <<48 + n>> ELSE Digits(n \div 10) \o <<48 + (n % 10)>>

\* strconv.FormatInt(v, 10)
FormatInt(v) == IF v < 0 THEN <<45>> \o Digits(-v) ELSE Digits(v)

\* strconv.FormatUint(v, 10)
FormatUint(v) == Digits(v)

\* line 337: the characters escapedText escapes
EscapeNeeded(c) == c = Backslash \/ c = Newline \/ c = Return13 \/ c = Tab

\* every character is copied as it is
EscapeChar_raw(c) == <<c>>

\* lines 350-361: what one character of the second loop appends
EscapeChar(c) ==
    CASE c = Backslash -> <<Backslash, Backslash>>
      [] c = Newline -> <<Backslash, 110>>
      [] c = Return13 -> <<Backslash, 114>>
      [] c = Tab -> <<Backslash, 116>>
      [] OTHER -> <<c>>

\* lines 348-362: the second loop, from index i (counted from 1)
RECURSIVE EscapeFrom(_, _)
EscapeFrom(text, i) ==
    IF i > Len(text) THEN <<>> ELSE EscapeChar(text[i]) \o EscapeFrom(text, i + 1)

\* lines 330-364
escapedText(text) ==
    IF ~\E i \in 1..Len(text) : EscapeNeeded(text[i])
    THEN text
    ELSE LET startPos == CHOOSE i \in 1..Len(text) :
                            /\ EscapeNeeded(text[i])
                            /\ \A j \in 1..(i - 1) : ~EscapeNeeded(text[j])
         IN  SubSeq(text, 1, startPos - 1) \o EscapeFrom(text, startPos)

\* "\\N"
EncodedNull == <<Backslash, 78>>

\* ---- strconv.FormatFloat(v, 'g', -1, 64)
\* the digits of a natural number, at least two of them
ExpDigits(n) == IF n < 10 THEN <<48, 48 + n>> ELSE Digits(n)

\* n zeros
Zeros(n) == [k \in 1..n |-> 48]

\* %e with the shortest digits: d[1] [. d[2..]] e sign exponent
FmtE(f) ==
    LET nd == Len(f.d)
        exp == IF nd = 0 THEN 0 ELSE f.dp - 1
    IN  (IF nd = 0 THEN <<48>> ELSE <<f.d[1]>>)
        \o (IF nd > 1 THEN <<46>> \o SubSeq(f.d, 2, nd) ELSE <<>>)
        \o <<101>>
        \o (IF exp < 0 THEN <<45>> \o ExpDigits(-exp) ELSE <<43>> \o ExpDigits(exp))

\* %f with the shortest digits: integer part, then the digits after the point
FmtF(f) ==
    LET nd == Len(f.d)
        prec == IF nd - f.dp > 0 THEN nd - f.dp ELSE 0
        m == Min(nd, f.dp)
    IN  (IF f.dp > 0 THEN SubSeq(f.d, 1, m) \o Zeros(f.dp - m) ELSE <<48>>)
        \o (IF prec > 0
            THEN <<46>> \o [i \in 1..prec |->
                             IF f.dp + i >= 1 /\ f.dp + i <= nd THEN f.d[f.dp + i] ELSE 48]
            ELSE <<>>)

\* line 263: NaN, the infinities, and %e when the exponent is below -4 or
\* at least 6 (the precision the shortest format decides with), else %f
FormatFloat(f) ==
    CASE f.kind = "nan" -> <<78, 97, 78>>
      [] f.kind = "inf" -> IF f.neg THEN <<45, 73, 110, 102>> ELSE <<43, 73, 110, 102>>
      [] OTHER -> (IF f.neg THEN <<45>> ELSE <<>>)
                  \o (IF f.dp - 1 < -4 \/ f.dp - 1 >= 6 THEN FmtE(f) ELSE FmtF(f))

\* ---- time.Time
\* days from 0001-01-01 to the civil date y-m-d (proleptic Gregorian)
DaysFromCivil(y, m, d) ==
    LET yy == IF m <= 2 THEN y - 1 ELSE y
        era == yy \div 400
        yoe == yy - era * 400
        doy == (153 * (IF m > 2 THEN m - 3 ELSE m + 9) + 2) \div 5 + d - 1
        doe == yoe * 365 + yoe \div 4 - yoe \div 100 + doy
    IN  era * 146097 + doe - 306

\* the year of its 400-year era of the day doe of the era
YearOfEra(doe) == (doe - doe \div 1460 + doe \div 36524 - doe \div 146096) \div 365

\* the day of its year, counted from the first of March, of that day
DayOfYear(doe, yoe) == doe - (365 * yoe + yoe \div 4 - yoe \div 100)

\* the civil date of day doy of the year y that begins in March, in the
\* month mp after March
CivilInMonth(y, doy, mp) ==
    [year |-> y + (IF mp >= 10 THEN 1 ELSE 0),
     month |-> IF mp < 10 THEN mp + 3 ELSE mp - 9,
     day |-> doy - (153 * mp + 2) \div 5 + 1]

\* the civil date of day doe of era era
CivilInEra(era, doe) ==
    CivilInMonth(YearOfEra(doe) + era * 400,
                 DayOfYear(doe, YearOfEra(doe)),
                 (5 * DayOfYear(doe, YearOfEra(doe)) + 2) \div 153)

\* the civil date of the day z days after 0001-01-01
CivilFromDays(z) == CivilInEra((z + 306) \div 146097, (z + 306) % 146097)

\* time.Date(y, mo, d, h, mi, s, ns, time.UTC)
Date(y, mo, d, h, mi, s, ns) ==
    [day |-> DaysFromCivil(y, mo, d), sod |-> h * 3600 + mi * 60 + s, ns |-> ns]

\* line 271: v.IsZero()
IsZero(v) == v.day = 0 /\ v.sod = 0 /\ v.ns = 0

\* line 275: v.Add(n nanoseconds), for n below one second
AddNanos(v, n) ==
    IF v.ns + n < 1000000000 THEN [v EXCEPT !.ns = v.ns + n]
    ELSE IF v.sod + 1 < 86400
         THEN [day |-> v.day, sod |-> v.sod + 1, ns |-> v.ns + n - 1000000000]
         ELSE [day |-> v.day + 1, sod |-> 0, ns |-> v.ns + n - 1000000000]

\* lines 279-285: the fields of second rem of the day with civil date civil
FieldsAt(civil, rem, ns) ==
    [year |-> civil.year, month |-> civil.month, day |-> civil.day,
     hour |-> rem \div 3600, minute |-> (rem % 3600) \div 60,
     second |-> rem % 60, nanosecond |-> ns]

\* lines 276-285: the fields of v in a zone loc seconds east of UTC
Fields(v, loc) ==
    FieldsAt(CivilFromDays(v.day + ((v.sod + loc) \div 86400)), (v.sod + loc) % 86400, v.ns)

\* the remainder of Go's integer division
GoRem(a, b) == a - b * GoDiv(a, b)

\* the two-digit tables: the tens and the units digit of 0..99
IndexInRange(n) == n \in 0..99
digits10(n) == 48 + (n \div 10)
digits01(n) == 48 + (n % 10)
TwoDigits(n) == <<digits10(n), digits01(n)>>

\* lines 276-285: what the table lookups are indexed with
PartsOf(f) ==
    [year100 |-> GoDiv(f.year, 100), year1 |-> GoRem(f.year, 100),
     month |-> f.month, day |-> f.day, hour |-> f.hour,
     minute |-> f.minute, second |-> f.second,
     micro |-> GoDiv(f.nanosecond, 1000)]

\* lines 274-285: the zone, the rounding offset, the fields
TimeParts(v, loc) == PartsOf(Fields(AddNanos(v, 500), loc))

\* lines 287-310: buf
FormatParts(p) ==
    TwoDigits(p.year100) \o TwoDigits(p.year1) \o <<45>>
    \o TwoDigits(p.month) \o <<45>> \o TwoDigits(p.day) \o <<32>>
    \o TwoDigits(p.hour) \o <<58>> \o TwoDigits(p.minute) \o <<58>>
    \o TwoDigits(p.second)
    \o (IF p.micro # 0
        THEN <<46>> \o TwoDigits(GoDiv(p.micro, 10000))
             \o TwoDigits(GoRem(GoDiv(p.micro, 100), 100))
             \o TwoDigits(GoRem(p.micro, 100))
        ELSE <<>>)

\* lines 274-311: the bytes of a timestamp that is not zero
FormatTime(v, loc) == FormatParts(TimeParts(v, loc))

\* lines 287-310: an index outside a table ends the call with a run-time panic
PartsPanic(p) ==
    \E n \in {p.year100, p.year1, p.month, p.day, p.hour, p.minute, p.second}
            \cup (IF p.micro # 0
                  THEN {GoDiv(p.micro, 10000), GoRem(GoDiv(p.micro, 100), 100),
                        GoRem(p.micro, 100)}
                  ELSE {}) : ~IndexInRange(n)

TimePanics(v, loc) == PartsPanic(TimeParts(v, loc))

\* "0000-00-00"
ZeroDate == <<48, 48, 48, 48, 45, 48, 48, 45, 48, 48>>

\* the zone of NewConfig: UTC
DefaultLoc == 0

\* lines 256-328: whether the call panics instead of returning
encodedLoadDataPanics(x, loc) ==
    x.t = "time" /\ ~IsZero(x.tm) /\ TimePanics(x.tm, loc)

\* lines 256-328, with mc.cfg.Loc a zone loc seconds east of UTC
encodedLoadData(x, loc) ==
    CASE x.t = "int64" -> FormatInt(x.i)
      [] x.t = "uint64" -> FormatUint(x.i)
      [] x.t = "float64" -> FormatFloat(x.f)
      [] x.t = "bool" -> IF x.b THEN <<49>> ELSE <<48>>
      [] x.t = "time" -> IF IsZero(x.tm) THEN ZeroDate ELSE FormatTime(x.tm, loc)
      [] x.t = "bytes" -> IF x.isNil THEN EncodedNull ELSE escapedText(x.s)
      [] x.t = "string" -> escapedText(x.s)
      [] x.t = "nil" -> EncodedNull
      [] OTHER -> <<>>

\* ------------------------------------------------------- the row buffer
\* lines 206-212: the columns of one row, tab separated, newline terminated
RECURSIVE EncodeColumns(_, _)
EncodeColumns(args, n) ==
    IF n > Len(args) THEN <<>>
    ELSE (IF n > 1 THEN <<Tab>> ELSE <<>>)
         \o encodedLoadData(args[n], DefaultLoc) \o EncodeColumns(args, n + 1)

EncodeRow(args) == EncodeColumns(args, 1) \o <<Newline>>

\* the buffer is flushed as soon as it reaches the threshold
ExceedsThreshold_atLeast(len, max) == len >= max

\* line 213: the buffer is flushed
ExceedsThreshold(len, max) == len > max

\* lines 222-229, loadDataWritePacket: the buffer after the packet was sent
\* (reset to the header) or was not (kept)
BufferAfterPacket(buf, ioErr) == IF ioErr # "nil" THEN buf ELSE Header

\* the flag is cleared only when the terminate succeeded
FlagAfterTerminate_onSuccess(e) == e # "nil"

\* lines 232-234: the deferred function of loadDataTerminate
FlagAfterTerminate(e) == FALSE

\* the rows the application appends; the empty row terminates the load
RowA == <<StringValue(<<97>>)>>
RowTab == <<StringValue(<<Tab>>)>>
RowNullTrue == <<NilValue, BoolValue(TRUE)>>
RowIntBytes == <<Int64Value(-7), NilBytesValue>>
Rows == {<<>>, RowA, RowTab, RowNullTrue, RowIntBytes}

\* lines 99-109: handleInFileRequest("Data::Data") returns loadDataStart()
CallData ==
    /\ pc \in {"idle", "done"}
    /\ Len(loadData) + Len(Header) <= MaxBuf
    /\ op' = "loadDataStart"
    /\ name' = DataData
    /\ packetSize' = InitialPacketSize(maxWriteSize)
    /\ rdr' = NilRdr
    /\ closer' = FALSE
    /\ zeroReads' = 0
    /\ loadDataStart
    /\ appended' = FALSE
    /\ sinceFlush' = <<>>
    /\ err' = "nil"
    /\ trace' = <<>>
    /\ pc' = "done"
    /\ UNCHANGED <<handles, regVars, cfgVars>>

\* lines 231-254: loadDataTerminate
loadDataTerminate ==
    /\ op' = "loadDataTerminate"
    /\ \E ioErr1 \in {"nil", "ErrSend"} :
         LET tr1 == <<Ev("send", loadData, ioErr1)>>
         IN  IF ioErr1 # "nil"
             THEN /\ err' = ioErr1
                  /\ trace' = tr1
                  /\ loadData' = BufferAfterPacket(loadData, ioErr1)
                  /\ sinceFlush' = sinceFlush
                  /\ inLoadData' = FlagAfterTerminate(err')
             ELSE \E ioErr2 \in {"nil", "ErrSend"} :
                    LET tr2 == Append(tr1, Ev("send", Header, ioErr2))
                    IN  /\ loadData' = <<>>
                        /\ sinceFlush' = <<>>
                        /\ IF ioErr2 # "nil"
                           THEN err' = ioErr2 /\ trace' = tr2
                           ELSE IF ReadsResult("nil")
                                THEN \E r \in {"nil", "ErrResult"} :
                                       /\ err' = r
                                       /\ trace' = Append(tr2, Ev("readResultOK", <<>>, r))
                                ELSE \E r \in {"nil", "ErrDrain"} :
                                       /\ err' = "nil"
                                       /\ trace' = Append(tr2, Ev("readPacket", <<>>, r))
                        /\ inLoadData' = FlagAfterTerminate(err')
    /\ UNCHANGED <<maxLoadDataSize, appended>>

\* lines 206-219: a row is appended and the buffer flushed when it is
\* longer than mc.maxLoadDataSize
loadDataAppend(args) ==
    /\ op' = "loadDataWrite"
    /\ appended' = TRUE
    /\ LET buf == loadData \o EncodeRow(args)
       IN  IF ExceedsThreshold(Len(buf), maxLoadDataSize)
           THEN \E ioErr \in {"nil", "ErrSend"} :
                  /\ trace' = <<Ev("send", buf, ioErr)>>
                  /\ loadData' = BufferAfterPacket(buf, ioErr)
                  /\ sinceFlush' = (IF ioErr = "nil" THEN <<>> ELSE sinceFlush \o EncodeRow(args))
                  /\ err' = ioErr
           ELSE /\ trace' = <<>>
                /\ loadData' = buf
                /\ sinceFlush' = sinceFlush \o EncodeRow(args)
                /\ err' = "nil"
    /\ UNCHANGED <<inLoadData, maxLoadDataSize>>

\* the query execution of the connection hands a statement's arguments to
\* loadDataWrite once a programmatic load has been started
InProgrammaticLoad == inLoadData

\* lines 201-220: loadDataWrite
LoadDataWrite(args) ==
    /\ pc \in {"idle", "done"}
    /\ InProgrammaticLoad
    /\ Len(loadData) + Len(EncodeRow(args)) <= MaxBuf
    /\ IF Len(args) = 0 THEN loadDataTerminate ELSE loadDataAppend(args)
    /\ pc' = "done"
    /\ UNCHANGED <<name, packetSize, rdr, closer, handles, zeroReads,
                   regVars, cfgVars>>

\* ------------------------------------------------------ the specification
InitWith(sizes, ins) ==
    /\ fileRegister = NilMap
    /\ readerRegister = NilMap
    /\ regLog = EmptyLog
    /\ fileRegisterLock = Unlocked
    /\ readerRegisterLock = Unlocked
    /\ goroutines = [g \in Goroutines |-> IdleG]
    /\ committed = [file |-> NilMap, reader |-> NilMap]
    /\ fnIn \in ins
    /\ fnOut = <<>>
    /\ maxWriteSize \in sizes
    /\ allowAllFiles \in BOOLEAN
    /\ op = "none"
    /\ pc = "idle"
    /\ name = <<>>
    /\ packetSize = 0
    /\ rdr = NilRdr
    /\ err = "nil"
    /\ closer = FALSE
    /\ trace = <<>>
    /\ handles = 0
    /\ zeroReads = 0
    /\ inLoadData = FALSE
    /\ maxLoadDataSize = 0
    /\ loadData = <<>>
    /\ appended = FALSE
    /\ sinceFlush = <<>>

\* no encoding function under study
InitSizes(sizes) == InitWith(sizes, {<<>>})

Init == InitSizes(DispatchWriteSizes)

Next ==
    \/ \E p \in FilePaths : RegisterLocalFile(p)
    \/ \E p \in FilePaths : DeregisterLocalFile(p)
    \/ \E n \in ReaderNames, h \in Handlers : RegisterReaderHandler(n, h)
    \/ \E n \in ReaderNames : DeregisterReaderHandler(n)
    \/ \E n \in RequestNames : Call(n)
    \/ ResolveReader
    \/ CheckFile
    \/ OpenFile
    \/ ReadLoop
    \/ SendTermination
    \/ ReadResultOK
    \/ DrainPacket

Spec == Init /\ [][Next]_vars

\* the programmatic load of one connection
InitLoad == InitSizes(LoadWriteSizes)

NextLoad ==
    \/ CallData
    \/ \E args \in Rows : LoadDataWrite(args)

SpecLoad == InitLoad /\ [][NextLoad]_vars

\* one connection that serves file and reader requests and runs
\* programmatic loads
ConnWriteSizes == {13}
ConnNames == {NameAbsReaderA, NameQuotedFile}
ConnRows == {<<>>, RowA}

InitConn == InitSizes(ConnWriteSizes)

NextConn ==
    \/ \E h \in Handlers : RegisterReaderHandler(<<97>>, h)
    \/ \E n \in ConnNames : Call(n)
    \/ ResolveReader
    \/ CheckFile
    \/ OpenFile
    \/ ReadLoop
    \/ SendTermination
    \/ ReadResultOK
    \/ DrainPacket
    \/ CallData
    \/ \E args \in ConnRows : LoadDataWrite(args)

SpecConn == InitConn /\ [][NextConn]_vars

\* the application registering and deregistering files and readers
NameOtherFile == <<Slash, 103>>
RegPaths == {NameFile, NameQuotedFile, NameOtherFile}
RegReaderNames == {<<97>>, <<98>>}
RegWriteSizes == {40000}

InitReg == InitSizes(RegWriteSizes)

NextReg ==
    \/ \E p \in RegPaths : RegisterLocalFile(p)
    \/ \E p \in RegPaths : DeregisterLocalFile(p)
    \/ \E n \in RegReaderNames, h \in Handlers : RegisterReaderHandler(n, h)
    \/ \E n \in RegReaderNames : DeregisterReaderHandler(n)

SpecReg == InitReg /\ [][NextReg]_vars

\* ------------------------------------------------- reading the trace
IsSend(e) == e.ev = "send"
IsTransport(e) == e.ev \in {"send", "readResultOK", "readPacket"}
\* a frame with at least one byte of payload
IsDataFrame(e) == e.ev = "send" /\ Len(Payload(e.data)) > 0
\* the 4 header bytes and no payload
IsEmptyFrame(e) == e.ev = "send" /\ Len(e.data) = 4 /\ Payload(e.data) = <<>>
SendFailed(tr) == \E i \in 1..Len(tr) : tr[i].ev = "send" /\ tr[i].e # "nil"
Count(tr, ev) == Cardinality({i \in 1..Len(tr) : tr[i].ev = ev})

\* the resolution or read error an event of the trace stands for
EvErr(e) ==
    CASE e.ev = "whitelist" ->
           IF e.e = "unlisted" /\ ~allowAllFiles THEN "ErrNotRegistered" ELSE "nil"
      [] e.ev = "registry" ->
           IF e.e = "missing" THEN "ErrReaderNotRegistered" ELSE "nil"
      [] e.ev = "handler" -> IF e.e = "hNil" THEN "ErrReaderNil" ELSE "nil"
      [] e.ev \in {"open", "stat"} -> e.e
      [] e.ev = "read" -> IF e.e = "EOF" THEN "nil" ELSE e.e
      [] OTHER -> "nil"

\* the first resolution or read error of the call, "nil" when there is none
OrigErr(tr) ==
    IF \E i \in 1..Len(tr) : EvErr(tr[i]) # "nil"
    THEN EvErr(tr[CHOOSE i \in 1..Len(tr) :
                    /\ EvErr(tr[i]) # "nil"
                    /\ \A j \in 1..(i - 1) : EvErr(tr[j]) = "nil"])
    ELSE "nil"

Returned(o) == op = o /\ pc = "done"

\* the transport events of the trace, in order
Transport(tr) == SelectSeq(tr, IsTransport)

\* ------------------------------------------------------------ the claims
\* C1: when a handleInFileRequest call for a file or reader name has
\* returned and none of its sends failed, its transport events are: data
\* frames (each with payload), then one empty termination frame, then one
\* last event, which is the completion read when no resolution or read
\* error occurred and one drain when one occurred; after the drain the
\* call returns that original error, whatever the drain yielded.
C1_TerminationHandshake ==
    (Returned("handleInFileRequest") /\ ~SendFailed(trace)) =>
        LET T == Transport(trace)
            n == Len(T)
        IN  /\ n >= 2
            /\ \A i \in 1..(n - 2) : IsDataFrame(T[i])
            /\ IsEmptyFrame(T[n - 1])
            /\ T[n].ev = IF OrigErr(trace) = "nil" THEN "readResultOK" ELSE "readPacket"
            /\ (OrigErr(trace) # "nil" => err = OrigErr(trace))

\* C1 witness: a read failed after a data frame was sent, the drain itself
\* failed, and the read error was returned
C1_Witness ==
    /\ Returned("handleInFileRequest")
    /\ ~SendFailed(trace)
    /\ OrigErr(trace) = "ErrRead"
    /\ \E i \in 1..Len(trace) : IsDataFrame(trace[i])
    /\ \E i \in 1..Len(trace) : trace[i].ev = "readPacket" /\ trace[i].e = "ErrDrain"
    /\ err = "ErrRead"

\* the file path of the call was not in the whitelist when it was checked,
\* and the allow-all-files override is off
Denied(tr) ==
    /\ ~allowAllFiles
    /\ \E i \in 1..Len(tr) : tr[i].ev = "whitelist" /\ tr[i].e = "unlisted"

NoFileAccess(tr) == \A i \in 1..Len(tr) : tr[i].ev \notin {"open", "stat", "read"}
NoDataFrame(tr) == \A i \in 1..Len(tr) : ~IsDataFrame(tr[i])

\* C2 as stated: a call for a path that is not whitelisted (override off)
\* never opens the file, sends no data frame and returns the
\* authorization-failure error.
C2_Original ==
    (op = "handleInFileRequest" /\ Denied(trace)) =>
        /\ NoFileAccess(trace)
        /\ NoDataFrame(trace)
        /\ handles = 0
        /\ (pc = "done" => err = "ErrNotRegistered")

\* C2 amended: a call for a path that is not whitelisted (override off)
\* never opens the file and sends no data frame, in every registry state;
\* it returns the authorization-failure error unless the send of the
\* termination frame failed, and then it returns that send error.
C2_UnauthorizedFile ==
    (op = "handleInFileRequest" /\ Denied(trace)) =>
        /\ NoFileAccess(trace)
        /\ NoDataFrame(trace)
        /\ handles = 0
        /\ (pc = "done" =>
              err = IF SendFailed(trace) THEN "ErrSend" ELSE "ErrNotRegistered")

\* C2 witness: the path was registered and deregistered again before the
\* check, and the call returned the authorization failure after the drain
C2_Witness ==
    /\ Returned("handleInFileRequest")
    /\ Denied(trace)
    /\ ~fileRegister.isNil
    /\ Count(trace, "readPacket") = 1
    /\ err = "ErrNotRegistered"

\* C3: once a send has failed, in handleInFileRequest (data frame or
\* termination frame) or in loadDataWrite / loadDataTerminate (flush frame
\* or termination frame), the operation has returned that send error and
\* has done no further send, no completion read and no drain.
C3_SendFailureIsFinal ==
    \A i \in 1..Len(trace) :
        (trace[i].ev = "send" /\ trace[i].e # "nil") =>
            /\ pc = "done"
            /\ err = trace[i].e
            /\ \A j \in (i + 1)..Len(trace) : ~IsTransport(trace[j])

\* C3 witness: the send of a data frame of a closeable reader failed, the
\* close that followed failed too, and the send error was returned
C3_Witness ==
    /\ Returned("handleInFileRequest")
    /\ \E i \in 1..Len(trace) : IsDataFrame(trace[i]) /\ trace[i].e = "ErrSend"
    /\ trace[Len(trace)] = Ev("close", <<>>, "ErrClose")
    /\ err = "ErrSend"

\* files opened and closeable streams obtained by the call
Opened(tr) ==
    {i \in 1..Len(tr) : \/ tr[i].ev = "open" /\ tr[i].e = "nil"
                        \/ tr[i].ev = "handler" /\ tr[i].e = "hCloser"}

\* C4: at most one handle is open during a handleInFileRequest call, and
\* when the call has returned every file it opened and every closeable
\* stream its factory returned has been closed exactly once, on every exit
\* path, and no handle is open.
C4_ClosedOnEveryPath ==
    /\ handles \in {0, 1}
    /\ Returned("handleInFileRequest") =>
          /\ handles = 0
          /\ Count(trace, "close") = Cardinality(Opened(trace))
          /\ \A i \in 1..Len(trace) :
                trace[i].ev = "close" =>
                    /\ i = Len(trace)
                    /\ \E j \in 1..(i - 1) : j \in Opened(trace)

\* C4 witness: the file was opened, its stat failed, and it was closed
C4_Witness ==
    /\ Returned("handleInFileRequest")
    /\ \E i \in 1..Len(trace) : trace[i].ev = "stat" /\ trace[i].e = "ErrStat"
    /\ Count(trace, "close") = 1
    /\ handles = 0

\* what the call returns apart from the close: the send error, or else the
\* resolution or read error, or else the result of the completion read
PriorErr(tr) ==
    IF SendFailed(tr) THEN "ErrSend"
    ELSE IF OrigErr(tr) # "nil" THEN OrigErr(tr)
    ELSE IF \E i \in 1..Len(tr) : tr[i].ev = "readResultOK"
         THEN (tr[CHOOSE i \in 1..Len(tr) : tr[i].ev = "readResultOK"]).e
         ELSE "nil"

\* C5: when handleInFileRequest closed a file or reader on return, it
\* returns the earlier error (resolution, stat, read, send or completion
\* read) when there is one, and the result of the close only when the call
\* would otherwise have succeeded.
C5_CloseErrorNeverMasks ==
    (Returned("handleInFileRequest") /\ Count(trace, "close") > 0) =>
        err = IF PriorErr(trace) # "nil"
              THEN PriorErr(trace)
              ELSE trace[Len(trace)].e

\* C5 witness: the completion read failed, the close failed, and the error
\* of the completion read was returned
C5_Witness ==
    /\ Returned("handleInFileRequest")
    /\ \E i \in 1..Len(trace) : trace[i] = Ev("readResultOK", <<>>, "ErrResult")
    /\ trace[Len(trace)] = Ev("close", <<>>, "ErrClose")
    /\ err = "ErrResult"

\* the reader name of the call was not registered, or its factory
\* returned no stream
Unresolved(tr) ==
    \E i \in 1..Len(tr) :
        \/ tr[i].ev = "registry" /\ tr[i].e = "missing"
        \/ tr[i].ev = "handler" /\ tr[i].e = "hNil"

\* the factory is called once when the name was found in the registry, and
\* not at all otherwise
FactoryCalls(tr) ==
    /\ Count(tr, "handler") =
          Cardinality({i \in 1..Len(tr) : tr[i].ev = "registry" /\ tr[i].e = "found"})
    /\ Count(tr, "registry") <= 1
    /\ \A i \in 1..Len(tr) :
          tr[i].ev = "handler" =>
              i > 1 /\ tr[i - 1].ev = "registry" /\ tr[i - 1].e = "found"

\* C6 as stated: the factory of a reader name is called exactly once in the
\* call when the name is registered, never when it is not and never before
\* a call; when the name is not registered or the factory returns no
\* stream, no data frame is sent and the call returns the
\* resolution-failure error after the termination frame and the drain.
C6_Original ==
    /\ op = "none" => trace = <<>>
    /\ op = "handleInFileRequest" =>
          /\ FactoryCalls(trace)
          /\ Unresolved(trace) =>
                /\ NoDataFrame(trace)
                /\ pc = "done" =>
                      /\ err = OrigErr(trace)
                      /\ Len(Transport(trace)) = 2
                      /\ IsEmptyFrame(Transport(trace)[1])
                      /\ Transport(trace)[2].ev = "readPacket"

\* C6 amended: as stated, except that when the send of the termination
\* frame fails the call returns that send error and drains nothing.
C6_ReaderResolution ==
    /\ op = "none" => trace = <<>>
    /\ op = "handleInFileRequest" =>
          /\ FactoryCalls(trace)
          /\ Unresolved(trace) =>
                /\ NoDataFrame(trace)
                /\ pc = "done" =>
                      /\ IsEmptyFrame(Transport(trace)[1])
                      /\ IF SendFailed(trace)
                         THEN /\ err = "ErrSend"
                              /\ Len(Transport(trace)) = 1
                         ELSE /\ err = OrigErr(trace)
                              /\ Len(Transport(trace)) = 2
                              /\ Transport(trace)[2].ev = "readPacket"

\* C6 witness: the factory of a registered name was called and returned no
\* stream; the termination frame was sent, a packet drained and the
\* resolution failure returned
C6_Witness ==
    /\ Returned("handleInFileRequest")
    /\ \E i \in 1..Len(trace) : trace[i].ev = "handler" /\ trace[i].e = "hNil"
    /\ Count(trace, "handler") = 1
    /\ Count(trace, "readPacket") = 1
    /\ err = "ErrReaderNil"

\* the resource was resolved and has no byte to give: an empty file, or a
\* stream that returned no byte up to its end
ZeroBytes(tr) ==
    /\ OrigErr(tr) = "nil"
    /\ ~rdr.isNil
    /\ rdr.rest = <<>>
    /\ \A i \in 1..Len(tr) : tr[i].ev = "read" => tr[i].data = <<>>
    /\ \A i \in 1..Len(tr) : tr[i].ev = "stat" => tr[i].data = <<>>

\* C7: a call for an authorized resource with zero available bytes, none
\* of whose sends failed, has sent no data frame and exactly one empty
\* frame, followed by exactly one completion read and no drain.
C7_EmptyResource ==
    (Returned("handleInFileRequest") /\ ZeroBytes(trace) /\ ~SendFailed(trace)) =>
        /\ Len(Transport(trace)) = 2
        /\ IsEmptyFrame(Transport(trace)[1])
        /\ Transport(trace)[2].ev = "readResultOK"

\* C7 witness: a reader reported the end of its stream on the first read
C7_Witness ==
    /\ Returned("handleInFileRequest")
    /\ ZeroBytes(trace)
    /\ ~SendFailed(trace)
    /\ \E i \in 1..Len(trace) : trace[i] = Ev("read", <<>>, "EOF")
    /\ Count(trace, "read") = 1
    /\ Count(trace, "readResultOK") = 1

\* C8: a terminate of a programmatic load to which no row was appended,
\* none of whose sends failed, has sent the flush of the buffer (at least
\* the 4 header bytes) and then the empty termination frame, and then done
\* exactly one completion read, whose result it returned.
C8_TerminateWithoutRows ==
    (Returned("loadDataTerminate") /\ ~appended /\ ~SendFailed(trace)) =>
        LET T == Transport(trace)
            n == Len(T)
        IN  /\ n >= 3
            /\ \A i \in 1..(n - 1) : IsSend(T[i]) /\ Len(T[i].data) >= 4
            /\ IsEmptyFrame(T[n - 1])
            /\ T[n].ev = "readResultOK"
            /\ err = T[n].e

\* C8 witness: the header-only flush, the termination frame, and a
\* completion read whose error was returned
C8_Witness ==
    /\ Returned("loadDataTerminate")
    /\ ~appended
    /\ trace = <<Ev("send", Header, "nil"), Ev("send", Header, "nil"),
                 Ev("readResultOK", <<>>, "ErrResult")>>
    /\ err = "ErrResult"

\* C9: mc.inLoadData is false after every return of loadDataTerminate,
\* whatever the outcome; it is true after loadDataStart, and still true
\* after the append of a row, also when the flush of that append failed.
C9_LoadingFlag ==
    /\ Returned("loadDataTerminate") => ~inLoadData
    /\ Returned("loadDataStart") => inLoadData
    /\ Returned("loadDataWrite") => inLoadData

\* C9 witness: the send of the termination frame failed in a terminate
C9_Witness ==
    /\ Returned("loadDataTerminate")
    /\ Len(trace) = 2
    /\ trace[2] = Ev("send", Header, "ErrSend")
    /\ err = "ErrSend"
    /\ ~inLoadData

\* C10: while a programmatic load is in progress mc.maxLoadDataSize is at
\* most 16384 and at most mc.maxWriteSize / 2 (the integer division of Go,
\* which truncates toward zero), for every mc.maxWriteSize; for a
\* maxWriteSize that is not negative twice the threshold is at most
\* maxWriteSize.
C10_FlushThresholdBound ==
    inLoadData =>
        /\ maxLoadDataSize <= 16384
        /\ maxLoadDataSize <= GoDiv(maxWriteSize, 2)
        /\ (maxWriteSize >= 0 => 2 * maxLoadDataSize <= maxWriteSize)

\* C10 witness: a load in progress on a connection whose maxWriteSize is
\* negative and odd, after a row was appended
C10_Witness ==
    /\ inLoadData
    /\ Returned("loadDataWrite")
    /\ maxWriteSize = -3
    /\ maxLoadDataSize = -1

\* lines 132-136 with the override off: the path would be allowed now
FileAllowedNow(p) ==
    IsFileAllowed(FALSE, FileRegistered(fileRegister, Trim(p, Quote)))

\* lines 116-119: the reader name would resolve now
ReaderResolvesNow(n) == n \in DOMAIN readerRegister.m

\* a path is allowed iff the last call for its unquoted form registered it;
\* a reader name resolves iff the last call for it registered a factory,
\* and it resolves to that factory
C11_State ==
    /\ \A p \in RegPaths :
          FileAllowedNow(p) <=> LastCall(regLog, "file", Unquoted(p)) = "register"
    /\ \A n \in RegReaderNames :
          /\ ReaderResolvesNow(n) <=> LastCall(regLog, "reader", n) \in Handlers
          /\ ReaderResolvesNow(n) => readerRegister.m[n] = LastCall(regLog, "reader", n)

\* registering what is registered and deregistering what is absent change
\* no registry (a nil map stays nil), and a call on one registry leaves the
\* other as it is
C11_Step ==
    /\ \A p \in RegPaths :
          /\ (RegisterLocalFile(p) /\ FileAllowedNow(p)) =>
                fileRegister' = fileRegister
          /\ (DeregisterLocalFile(p) /\ ~FileAllowedNow(p)) =>
                fileRegister' = fileRegister
          /\ (RegisterLocalFile(p) \/ DeregisterLocalFile(p)) =>
                readerRegister' = readerRegister
    /\ \A n \in RegReaderNames :
          /\ \A h \in Handlers :
                (/\ RegisterReaderHandler(n, h)
                 /\ ReaderResolvesNow(n)
                 /\ readerRegister.m[n] = h) => readerRegister' = readerRegister
          /\ (DeregisterReaderHandler(n) /\ ~ReaderResolvesNow(n)) =>
                readerRegister' = readerRegister
          /\ (DeregisterReaderHandler(n) \/ \E h \in Handlers : RegisterReaderHandler(n, h)) =>
                fileRegister' = fileRegister

\* C11: after any sequence of register and deregister calls from the empty
\* registries, a path is allowed (override off) iff the last file call on
\* its quote-stripped form was a register, and a reader name resolves iff
\* the last reader call on it was a register, to the factory of that
\* register; registering twice is registering once, deregistering an
\* absent entry (of a nil map too) changes nothing, and the calls of one
\* registry never change the other.
C11_RegistryAlgebra == []C11_State /\ [][C11_Step]_vars

\* C11 witness: a path registered with quotes and deregistered again,
\* another path registered, a reader name deregistered while the reader
\* map holds another name
C11_Witness ==
    /\ LastCall(regLog, "file", NameFile) = "deregister"
    /\ ~fileRegister.isNil
    /\ ~FileAllowedNow(NameQuotedFile)
    /\ FileAllowedNow(NameOtherFile)
    /\ LastCall(regLog, "reader", <<98>>) = "deregister"
    /\ ReaderResolvesNow(<<97>>)
    /\ readerRegister.m[<<97>>] = "hNil"

\* ------------------------------------------- the registries under their locks
\* Lock returns although the mutex is held
CanLock_always(l) == TRUE

\* lines 41, 53, 74, 87: Lock returns once no writer and no reader holds the mutex
CanLock(l) == ~l.writer /\ l.readers = 0

\* lines 116, 133: RLock returns once no writer holds the mutex
CanRLock(l) == ~l.writer

WriterCalls == {"RegisterLocalFile", "DeregisterLocalFile",
                "RegisterReaderHandler", "DeregisterReaderHandler"}
ReaderCalls == {"lookupFile", "lookupReader"}

\* the registry a call works on
RegistryOf(call) ==
    IF call \in {"RegisterLocalFile", "DeregisterLocalFile", "lookupFile"}
    THEN "file" ELSE "reader"

LockOf(r) == IF r = "file" THEN fileRegisterLock ELSE readerRegisterLock
MapOf(r) == IF r = "file" THEN fileRegister ELSE readerRegister

\* the keys and values the concurrent calls are made with
LockKeys(r) == IF r = "file" THEN {NameFile, NameQuotedFile} ELSE {<<97>>}
LockVals(call) ==
    IF call = "RegisterLocalFile" THEN {"true"}
    ELSE IF call = "RegisterReaderHandler" THEN {"hPlain", "hNil"}
    ELSE {"none"}

\* the map key of a call: file paths are trimmed of quotes (lines 47, 54, 132)
KeyOf(g) ==
    IF RegistryOf(g.call) = "file" THEN Trim(g.key, Quote) ELSE g.key

\* lines 117 and 134: what a lookup in map reg yields
LookupIn(reg, r, key) ==
    IF r = "file"
    THEN (IF FileRegistered(reg, key) THEN "true" ELSE "false")
    ELSE (IF key \in DOMAIN reg.m THEN reg.m[key] ELSE "notInMap")

\* lines 43-45 and 76-78: lazy map init
MakeIfNil(reg) == IF reg.isNil THEN [isNil |-> FALSE, m |-> reg.m] ELSE reg

SetLock(r, l) ==
    IF r = "file"
    THEN fileRegisterLock' = l /\ UNCHANGED readerRegisterLock
    ELSE readerRegisterLock' = l /\ UNCHANGED fileRegisterLock

SetMap(r, reg) ==
    IF r = "file"
    THEN fileRegister' = reg /\ UNCHANGED readerRegister
    ELSE readerRegister' = reg /\ UNCHANGED fileRegister

\* lines 41, 53, 74, 87: xRegisterLock.Lock()
Lock(g, call, key, val) ==
    LET r == RegistryOf(call) IN
    /\ goroutines[g].pc = "idle"
    /\ CanLock(LockOf(r))
    /\ SetLock(r, [LockOf(r) EXCEPT !.writer = TRUE])
    /\ goroutines' = [goroutines EXCEPT ![g] =
          [pc |-> IF call \in {"RegisterLocalFile", "RegisterReaderHandler"}
                  THEN "init" ELSE "mutate",
           call |-> call, key |-> key, val |-> val, seen |-> "none"]]
    /\ UNCHANGED <<fileRegister, readerRegister, regLog, committed,
                   fnVars, cfgVars, callVars, loadVars>>

\* lines 43-45 and 76-78
LazyInit(g) ==
    LET r == RegistryOf(goroutines[g].call) IN
    /\ goroutines[g].pc = "init"
    /\ SetMap(r, MakeIfNil(MapOf(r)))
    /\ goroutines' = [goroutines EXCEPT ![g].pc = "mutate"]
    /\ UNCHANGED <<regLog, committed, fileRegisterLock, readerRegisterLock,
                   fnVars, cfgVars, callVars, loadVars>>

\* lines 47, 54, 80, 88: the assignment or the delete
Mutate(g) ==
    LET me == goroutines[g]
        r == RegistryOf(me.call)
    IN  /\ me.pc = "mutate"
        /\ SetMap(r, IF me.call = "RegisterLocalFile" THEN MapSet(MapOf(r), KeyOf(me), TRUE)
                     ELSE IF me.call = "RegisterReaderHandler" THEN MapSet(MapOf(r), KeyOf(me), me.val)
                     ELSE MapDelete(MapOf(r), KeyOf(me)))
        /\ regLog' = Logged(regLog, r, KeyOf(me),
                            IF me.call = "RegisterLocalFile" THEN "register"
                            ELSE IF me.call = "RegisterReaderHandler" THEN me.val
                            ELSE "deregister")
        /\ goroutines' = [goroutines EXCEPT ![g].pc = "unlock"]
        /\ UNCHANGED <<committed, fileRegisterLock, readerRegisterLock,
                       fnVars, cfgVars, callVars, loadVars>>

\* lines 48, 55, 81, 89: xRegisterLock.Unlock()
Unlock(g) ==
    LET r == RegistryOf(goroutines[g].call) IN
    /\ goroutines[g].pc = "unlock"
    /\ SetLock(r, [LockOf(r) EXCEPT !.writer = FALSE])
    /\ committed' = [committed EXCEPT ![r] = MapOf(r)]
    /\ goroutines' = [goroutines EXCEPT ![g] = IdleG]
    /\ UNCHANGED <<fileRegister, readerRegister, regLog,
                   fnVars, cfgVars, callVars, loadVars>>

\* lines 116, 133: xRegisterLock.RLock()
RLock(g, call, key) ==
    LET r == RegistryOf(call) IN
    /\ goroutines[g].pc = "idle"
    /\ CanRLock(LockOf(r))
    /\ SetLock(r, [LockOf(r) EXCEPT !.readers = @ + 1])
    /\ goroutines' = [goroutines EXCEPT ![g] =
          [pc |-> "read", call |-> call, key |-> key, val |-> "none", seen |-> "none"]]
    /\ UNCHANGED <<fileRegister, readerRegister, regLog, committed,
                   fnVars, cfgVars, callVars, loadVars>>

\* lines 117, 134: the map read
Lookup(g) ==
    LET me == goroutines[g]
        r == RegistryOf(me.call)
    IN  /\ me.pc = "read"
        /\ goroutines' = [goroutines EXCEPT
              ![g].pc = "runlock",
              ![g].seen = LookupIn(MapOf(r), r, KeyOf(me))]
        /\ UNCHANGED <<fileRegister, readerRegister, regLog, committed,
                       fileRegisterLock, readerRegisterLock,
                       fnVars, cfgVars, callVars, loadVars>>

\* lines 118, 135: xRegisterLock.RUnlock()
RUnlock(g) ==
    LET r == RegistryOf(goroutines[g].call) IN
    /\ goroutines[g].pc = "runlock"
    /\ SetLock(r, [LockOf(r) EXCEPT !.readers = @ - 1])
    /\ goroutines' = [goroutines EXCEPT ![g] = IdleG]
    /\ UNCHANGED <<fileRegister, readerRegister, regLog, committed,
                   fnVars, cfgVars, callVars, loadVars>>

\* goroutines calling the registry functions while connections look up
NextLock ==
    \/ \E g \in Goroutines, call \in WriterCalls :
          \E key \in LockKeys(RegistryOf(call)), val \in LockVals(call) :
             Lock(g, call, key, val)
    \/ \E g \in Goroutines : LazyInit(g)
    \/ \E g \in Goroutines : Mutate(g)
    \/ \E g \in Goroutines : Unlock(g)
    \/ \E g \in Goroutines, call \in ReaderCalls :
          \E key \in LockKeys(RegistryOf(call)) : RLock(g, call, key)
    \/ \E g \in Goroutines : Lookup(g)
    \/ \E g \in Goroutines : RUnlock(g)

SpecLock == InitReg /\ [][NextLock]_vars

\* the goroutines between Lock and Unlock of registry r
Writers(r) ==
    {g \in Goroutines : /\ goroutines[g].pc \in {"init", "mutate", "unlock"}
                        /\ RegistryOf(goroutines[g].call) = r}

\* the goroutines between RLock and RUnlock of registry r
Readers(r) ==
    {g \in Goroutines : /\ goroutines[g].pc \in {"read", "runlock"}
                        /\ RegistryOf(goroutines[g].call) = r}

\* C12: under every interleaving of register/deregister calls and registry
\* lookups, a registry has at most one writer inside its write section and
\* then no reader inside its read section; while a reader is inside, the
\* registry is as the last complete call left it, and what a lookup saw is
\* the lookup in that registry.
C12_ReadersWriterDiscipline ==
    \A r \in {"file", "reader"} :
       /\ Cardinality(Writers(r)) <= 1
       /\ Writers(r) # {} => Readers(r) = {}
       /\ Readers(r) # {} => MapOf(r) = committed[r]
       /\ \A g \in Readers(r) :
             goroutines[g].pc = "runlock" =>
                goroutines[g].seen = LookupIn(committed[r], r, KeyOf(goroutines[g]))

\* C12 witness: two lookups inside the read section of the file registry
\* at the same time, after a registration, while a writer is inside the
\* write section of the reader registry
C12_Witness ==
    /\ Cardinality(Readers("file")) >= 2
    /\ \E g \in Readers("file") : goroutines[g].seen = "true"
    /\ Writers("reader") # {}

\* ------------------------------------------------- escapedText on its own
MaxText == 3

\* the bytes of the texts: the four escaped ones, a quote and two letters
TextBytes == {Backslash, Newline, Return13, Tab, 39, 97, 110}

RECURSIVE TextsUpTo(_)
TextsUpTo(n) ==
    IF n = 0 THEN {<<>>}
    ELSE LET shorter == TextsUpTo(n - 1)
         IN  shorter \cup {Append(t, c) : t \in {u \in shorter : Len(u) = n - 1}, c \in TextBytes}

Texts == TextsUpTo(MaxText)

InitEsc == InitWith(RegWriteSizes, Texts)

\* a call escapedText(fnIn)
EscapeText ==
    /\ op = "none"
    /\ op' = "escapedText"
    /\ fnOut' = escapedText(fnIn)
    /\ UNCHANGED <<fnIn, fileRegister, readerRegister, regLog, committed, lockVars,
                   cfgVars, pc, name, packetSize, rdr, err, closer, trace,
                   handles, zeroReads, loadVars>>

NextEsc == EscapeText

SpecEsc == InitEsc /\ [][NextEsc]_vars

\* the four characters of the claim and the letter each is written with
Special(c) == c \in {92, 10, 13, 9}
Letter(c) == IF c = 92 THEN 92 ELSE IF c = 10 THEN 110 ELSE IF c = 13 THEN 114 ELSE 116

\* where the image of the i-th character of text begins in the result
At(text, i) == i + Cardinality({j \in 1..(i - 1) : Special(text[j])})

\* reading a result back: a backslash takes the next character with it
RECURSIVE Decoded(_)
Decoded(s) ==
    IF s = <<>> THEN <<>>
    ELSE IF s[1] = 92 /\ Len(s) >= 2
         THEN <<CASE s[2] = 110 -> 10 [] s[2] = 114 -> 13 [] s[2] = 116 -> 9 [] OTHER -> s[2]>>
              \o Decoded(SubSeq(s, 3, Len(s)))
         ELSE <<s[1]>> \o Decoded(Tail(s))

\* C13: escapedText replaces each backslash, newline, carriage return and
\* tab, in place, by a backslash and its letter and copies every other
\* byte, in order; a text with none of the four is returned as it is; the
\* result is longer by the number of escaped characters, holds no raw tab,
\* newline or carriage return, and decodes back to the text.
C13_EscapedText ==
    op = "escapedText" =>
       /\ Len(fnOut) = Len(fnIn) + Cardinality({j \in 1..Len(fnIn) : Special(fnIn[j])})
       /\ \A i \in 1..Len(fnIn) :
             IF Special(fnIn[i])
             THEN fnOut[At(fnIn, i)] = 92 /\ fnOut[At(fnIn, i) + 1] = Letter(fnIn[i])
             ELSE fnOut[At(fnIn, i)] = fnIn[i]
       /\ (\A i \in 1..Len(fnIn) : ~Special(fnIn[i])) => fnOut = fnIn
       /\ \A k \in 1..Len(fnOut) : fnOut[k] \notin {9, 10, 13}
       /\ Decoded(fnOut) = fnIn

\* C13 witness: a quote, a tab, a backslash
C13_Witness ==
    /\ op = "escapedText"
    /\ fnIn = <<39, 9, 92>>
    /\ fnOut = <<39, 92, 116, 92, 92>>

\* --------------------------------------------- encodedLoadData on its own
\* float64 values: 42.23, 0, -0.5, 1e+06, 100000, 1.5e-05, 0.0001,
\* 1.23e+100, NaN and the infinities
EncFloats ==
    {Float("finite", FALSE, <<52, 50, 50, 51>>, 2), Float("finite", FALSE, <<>>, 0),
     Float("finite", TRUE, <<53>>, 0), Float("finite", FALSE, <<49>>, 7),
     Float("finite", FALSE, <<49>>, 6), Float("finite", FALSE, <<49, 53>>, -4),
     Float("finite", FALSE, <<49>>, -3), Float("finite", FALSE, <<49, 50, 51>>, 101),
     Float("nan", FALSE, <<>>, 0), Float("inf", FALSE, <<>>, 0), Float("inf", TRUE, <<>>, 0)}

\* timestamps: dates at the ends of years, months and the table range,
\* clock times at the ends of the day, nanoseconds around the rounding
EncDates ==
    {<<-1, 6, 15>>, <<0, 1, 1>>, <<1, 1, 1>>, <<2014, 12, 31>>, <<2015, 2, 28>>,
     <<2016, 2, 28>>, <<9999, 12, 31>>, <<10000, 1, 1>>}
EncClocks == {<<0, 0, 0>>, <<12, 13, 24>>, <<23, 59, 59>>}
EncNanos == {0, 499, 500, 1499, 123456789, 999999499, 999999500, 999999999}
EncTimes ==
    {Date(d[1], d[2], d[3], c[1], c[2], c[3], ns) :
        d \in EncDates, c \in EncClocks, ns \in EncNanos}

\* mc.cfg.Loc: UTC, eight hours west, nine hours east
EncLocs == {0, -28800, 32400}

EncValues ==
    {NilValue, NilBytesValue, BoolValue(TRUE), BoolValue(FALSE),
     Int64Value(42), Int64Value(-7), Int64Value(0), Uint64Value(42),
     StringValue(<<116, 101, 115, 116>>), BytesValue(<<116, 101, 115, 116>>),
     Value("int32", FALSE, FALSE, 0, <<>>)}
    \cup {StringValue(t) : t \in TextsUpTo(1)}
    \cup {BytesValue(t) : t \in TextsUpTo(1)}
    \cup {Float64Value(f) : f \in EncFloats}
    \cup {TimeValue(tm) : tm \in EncTimes}

EncInputs == {[x |-> x, loc |-> loc] : x \in EncValues, loc \in EncLocs}

InitEnc == InitWith(RegWriteSizes, EncInputs)

\* a call mc.encodedLoadData(fnIn.x) with mc.cfg.Loc = fnIn.loc
Encode ==
    /\ op = "none"
    /\ op' = "encodedLoadData"
    /\ fnOut' = IF encodedLoadDataPanics(fnIn.x, fnIn.loc)
                THEN [panic |-> TRUE, s |-> <<>>]
                ELSE [panic |-> FALSE, s |-> encodedLoadData(fnIn.x, fnIn.loc)]
    /\ UNCHANGED <<fnIn, fileRegister, readerRegister, regLog, committed, lockVars,
                   cfgVars, pc, name, packetSize, rdr, err, closer, trace,
                   handles, zeroReads, loadVars>>

NextEnc == Encode

SpecEnc == InitEnc /\ [][NextEnc]_vars

\* the variants the encoder supports
Supported == {"nil", "bool", "int64", "uint64", "float64", "time", "bytes", "string"}

\* C14: for every value of a supported variant and every timezone the
\* encoder returns a string without failing; null and the nil byte
\* sequence give backslash-N, an empty byte sequence that is not nil the
\* empty string, true "1" and false "0", the zero timestamp "0000-00-00",
\* byte sequences and text the escaped text of their content.
C14_Original ==
    (op = "encodedLoadData" /\ fnIn.x.t \in Supported) =>
       /\ ~fnOut.panic
       /\ fnIn.x.t = "nil" => fnOut.s = <<92, 78>>
       /\ (fnIn.x.t = "bytes" /\ fnIn.x.isNil) => fnOut.s = <<92, 78>>
       /\ (fnIn.x.t = "bytes" /\ ~fnIn.x.isNil /\ fnIn.x.s = <<>>) => fnOut.s = <<>>
       /\ fnIn.x.t = "bool" => fnOut.s = (IF fnIn.x.b THEN <<49>> ELSE <<48>>)
       /\ (fnIn.x.t = "time" /\ fnIn.x.tm = Date(1, 1, 1, 0, 0, 0, 0)) =>
             fnOut.s = <<48, 48, 48, 48, 45, 48, 48, 45, 48, 48>>
       /\ (fnIn.x.t = "string" \/ (fnIn.x.t = "bytes" /\ ~fnIn.x.isNil)) =>
             fnOut.s = escapedText(fnIn.x.s)

\* C14 witness: noon of a day of the year before the year 0 in UTC is
\* given to the encoder, and the call ends in a panic
C14_Witness ==
    /\ op = "encodedLoadData"
    /\ fnIn.x = TimeValue(Date(-1, 6, 15, 12, 13, 24, 0))
    /\ fnIn.loc = 0
    /\ fnOut.panic

\* a number below 100 as two digits
Pad2(n) == <<48 + (n \div 10), 48 + (n % 10)>>

\* the 19 characters YYYY-MM-DD HH:MM:SS of second sod of day day
Render19(day, sod) ==
    LET c == CivilFromDays(day)
    IN  Pad2(c.year \div 100) \o Pad2(c.year % 100) \o <<45>> \o Pad2(c.month)
        \o <<45>> \o Pad2(c.day) \o <<32>> \o Pad2(sod \div 3600) \o <<58>>
        \o Pad2((sod % 3600) \div 60) \o <<58>> \o Pad2(sod % 60)

\* C18: for a timestamp that is not zero, with ns nanoseconds in its
\* second, the encoder renders the microseconds floor((ns + 500) / 1000):
\* from ns = 999999500 on the next second of the zone is rendered (minute,
\* hour and date following) without a fractional part; the fractional
\* part is there iff the rounded microseconds are not zero, as a point and
\* 6 digits; the rounded microseconds are in 0..999999.
C18_Original ==
    (op = "encodedLoadData" /\ fnIn.x.t = "time" /\ fnIn.x.tm # Date(1, 1, 1, 0, 0, 0, 0)) =>
       LET tm == fnIn.x.tm
           carry == tm.ns >= 999999500
           micro == IF carry THEN 0 ELSE (tm.ns + 500) \div 1000
           local == tm.sod + fnIn.loc + (IF carry THEN 1 ELSE 0)
           day == tm.day + (local \div 86400)
       IN  /\ ~fnOut.panic
           /\ micro \in 0..999999
           /\ Len(fnOut.s) = (IF micro = 0 THEN 19 ELSE 26)
           /\ SubSeq(fnOut.s, 1, 19) = Render19(day, local % 86400)
           /\ micro # 0 =>
                 /\ fnOut.s[20] = 46
                 /\ SubSeq(fnOut.s, 21, 26) =
                       Pad2(micro \div 10000) \o Pad2((micro \div 100) % 100) \o Pad2(micro % 100)

\* C18 witness: half a microsecond before the year 10000 in UTC; the
\* rounding carries into the date and the call ends in a panic
C18_Witness ==
    /\ op = "encodedLoadData"
    /\ fnIn.x = TimeValue(Date(9999, 12, 31, 23, 59, 59, 999999500))
    /\ fnIn.loc = 0
    /\ fnOut.panic

\* the bytes a row of Rows is written as: columns, a tab between them, a
\* newline after them
RowText(args) ==
    CASE args = RowA -> <<97, 10>>
      [] args = RowTab -> <<92, 116, 10>>
      [] args = RowNullTrue -> <<92, 78, 9, 49, 10>>
      [] args = RowIntBytes -> <<45, 55, 9, 92, 78, 10>>
      [] OTHER -> <<>>

\* an append of a row with columns: the row is added to the buffer; when
\* the buffer is then longer than the threshold exactly one frame with the
\* whole buffer is sent and, the send succeeding, the buffer is the
\* header again; else nothing is sent and the buffer is kept
C15_Step ==
    \A args \in Rows \ {<<>>} :
       LoadDataWrite(args) =>
          LET buf == loadData \o RowText(args)
          IN  IF Len(buf) > maxLoadDataSize
              THEN /\ Len(trace') = 1
                   /\ trace'[1].ev = "send"
                   /\ trace'[1].data = buf
                   /\ err' = trace'[1].e
                   /\ loadData' = (IF err' = "nil" THEN <<0, 0, 0, 0>> ELSE buf)
              ELSE /\ trace' = <<>>
                   /\ err' = "nil"
                   /\ loadData' = buf

\* after an append that succeeded the buffer is no longer than
\* max(threshold, 4)
C15_Bound ==
    (Returned("loadDataWrite") /\ err = "nil") =>
       Len(loadData) <= (IF maxLoadDataSize > 4 THEN maxLoadDataSize ELSE 4)

\* C15: appending a row with columns during a programmatic load adds
\* exactly the encoded row to the buffer and then sends exactly one frame,
\* the whole buffer, iff the buffer with its header is strictly longer
\* than the flush threshold; after a flush that succeeded the buffer is
\* the 4-byte header, without a flush the buffer is kept; so after every
\* append that succeeded the buffer is at most max(threshold, 4) long.
C15_AppendAndFlush == []C15_Bound /\ [][C15_Step]_vars

\* C15 witness: with the threshold at 6 a second row made the buffer 8
\* bytes long, it was sent whole and the buffer is the header again
C15_Witness ==
    /\ Returned("loadDataWrite")
    /\ maxLoadDataSize = 6
    /\ trace = <<Ev("send", <<0, 0, 0, 0, 97, 10, 97, 10>>, "nil")>>
    /\ loadData = <<0, 0, 0, 0>>
    /\ inLoadData

IsRead(e) == e.ev = "read"

\* the bytes of the events of tr, in order
RECURSIVE Bytes(_)
Bytes(tr) == IF tr = <<>> THEN <<>> ELSE Head(tr).data \o Bytes(Tail(tr))

\* the payloads of the frames of tr, in order
RECURSIVE Payloads(_)
Payloads(tr) ==
    IF tr = <<>> THEN <<>> ELSE Payload(Head(tr).data) \o Payloads(Tail(tr))

\* min(16 KiB, maximum write size) and, for a file, its size as stat gave it
ChunkSize(tr) ==
    LET base == IF maxWriteSize < 16384 THEN maxWriteSize ELSE 16384
        stats == {i \in 1..Len(tr) : tr[i].ev = "stat" /\ tr[i].e = "nil"}
    IN  IF stats = {} THEN base
        ELSE LET size == Len(tr[CHOOSE i \in stats : TRUE].data)
             IN  IF size < base THEN size ELSE base

\* C16: in a file or reader request every frame with payload carries at
\* least 1 and at most chunk-size bytes, the chunk size being min(16 KiB,
\* maximum write size) and for files also at most the file size; a read
\* that returned bytes is followed at once, before the next read, by the
\* frame with exactly these bytes, and no other frame carries payload; so
\* the payloads in send order are the bytes the source returned.
C16_DataFrames ==
    op = "handleInFileRequest" =>
       /\ \A i \in 1..Len(trace) :
             /\ (IsSend(trace[i]) /\ Payload(trace[i].data) # <<>>) =>
                   /\ Len(Payload(trace[i].data)) >= 1
                   /\ Len(Payload(trace[i].data)) <= ChunkSize(trace)
                   /\ i > 1
                   /\ IsRead(trace[i - 1])
                   /\ trace[i - 1].data = Payload(trace[i].data)
             /\ (IsRead(trace[i]) /\ trace[i].data # <<>>) =>
                   /\ i < Len(trace)
                   /\ IsSend(trace[i + 1])
                   /\ Payload(trace[i + 1].data) = trace[i].data
       /\ Payloads(SelectSeq(trace, IsSend)) = Bytes(SelectSeq(trace, IsRead))

\* C16 witness: a file of two bytes served with a maximum write size of
\* one: two frames of one byte each, then end of stream, and the call
\* returned
C16_Witness ==
    /\ Returned("handleInFileRequest")
    /\ maxWriteSize = 1
    /\ \E i \in 1..Len(trace) : trace[i].ev = "stat" /\ Len(trace[i].data) = 2
    /\ Cardinality({i \in 1..Len(trace) : IsDataFrame(trace[i])}) = 2
    /\ Payloads(SelectSeq(trace, IsSend)) = <<97, 98>>
    /\ \E i \in 1..Len(trace) : IsRead(trace[i]) /\ trace[i].e = "EOF"

\* C17: while the loading flag is set the row buffer is exactly one 4-byte
\* header followed only by the rows appended since the last flush of the
\* current load, whatever starts, appends and terminates came before
\* (failed sends and repeated starts included); once a load has been
\* terminated the buffer holds no byte, and a load that was just started
\* has the 4-byte header alone.
C17_Original ==
    /\ inLoadData => loadData = <<0, 0, 0, 0>> \o sinceFlush
    /\ Returned("loadDataTerminate") => loadData = <<>>
    /\ Returned("loadDataStart") => loadData = <<0, 0, 0, 0>>

\* C17 witness: a load with one row in its buffer was terminated, the
\* send of its flush failed: the flag is cleared and the buffer still
\* holds the header and the row of the terminated load
C17_Witness ==
    /\ Returned("loadDataTerminate")
    /\ ~inLoadData
    /\ err = "ErrSend"
    /\ trace = <<Ev("send", <<0, 0, 0, 0, 97, 10>>, "ErrSend")>>
    /\ loadData = <<0, 0, 0, 0, 97, 10>>

\* C19: on the file and reader path and on the programmatic path alike a
\* frame without payload is sent at most once and is the last frame: no
\* frame follows a frame that has only its 4-byte header.
C19_Original ==
    \A i \in 1..Len(trace) :
       (IsSend(trace[i]) /\ Payload(trace[i].data) = <<>>) =>
          \A j \in (i + 1)..Len(trace) : ~IsSend(trace[j])

\* C19 witness: a programmatic load with a row appended was terminated
\* while the buffer held its header alone: the flush frame and the
\* termination frame, both without payload, were sent one after the other
C19_Witness ==
    /\ Returned("loadDataTerminate")
    /\ appended
    /\ Len(trace) = 3
    /\ trace[1] = Ev("send", <<0, 0, 0, 0>>, "nil")
    /\ trace[2] = Ev("send", <<0, 0, 0, 0>>, "nil")
    /\ trace[3].ev = "readResultOK"

\* ------------------------------------------------ a request runs to its end
\* the steps of a handleInFileRequest call that is under way
Step ==
    \/ ResolveReader
    \/ CheckFile
    \/ OpenFile
    \/ ReadLoop
    \/ SendTermination
    \/ ReadResultOK
    \/ DrainPacket

\* connections that serve requests after the application has registered
\* its files and readers
LiveWriteSizes == {0, 1, 40000}
InitLive == InitSizes(LiveWriteSizes)

NextLive ==
    \/ \E p \in FilePaths : RegisterLocalFile(p)
    \/ \E n \in ReaderNames, h \in Handlers : RegisterReaderHandler(n, h)
    \/ \E n \in RequestNames : Call(n)
    \/ Step

\* the call is sequential code: while it is under way its next statement
\* is executed, every call to the source and to the transport returning
SpecLive == InitLive /\ [][NextLive]_vars /\ WF_vars(Step)

\* the index of the last read of tr
LastRead(tr) == CHOOSE i \in 1..Len(tr) : IsRead(tr[i]) /\ \A j \in (i + 1)..Len(tr) : ~IsRead(tr[j])

\* a call that returned without a failed send has sent the termination
\* frame and then read the completion or drained; a call that is past its
\* read loop left it on a read with end-of-stream or an error, or on a
\* failed send
C20_AtReturn ==
    op = "handleInFileRequest" =>
       /\ (pc = "done" /\ ~SendFailed(trace)) =>
             \E i \in 1..Len(trace) :
                /\ IsEmptyFrame(trace[i])
                /\ i < Len(trace)
                /\ trace[i + 1].ev \in {"readResultOK", "readPacket"}
       /\ (pc \in {"term", "final", "done"} /\ \E i \in 1..Len(trace) : IsRead(trace[i])) =>
             \/ trace[LastRead(trace)].e \in {"EOF", "ErrRead"}
             \/ SendFailed(trace)
       /\ (pc = "read" /\ \E i \in 1..Len(trace) : IsRead(trace[i])) =>
             trace[LastRead(trace)].e = "nil" /\ ~SendFailed(trace)

\* C20: with a source that ends or fails after finitely many reads and a
\* transport whose calls return, a handleInFileRequest call that was
\* entered returns; unless a send failed it has then sent the termination
\* frame and read the completion or drained; its read loop is left only
\* on a read with end-of-stream or an error or on a failed send.
C20_Returns ==
    /\ []C20_AtReturn
    /\ [](op = "handleInFileRequest" => <>(op = "handleInFileRequest" /\ pc = "done"))

\* C20 witness: a reader returned nothing once, then a byte, then end of
\* stream; the termination frame was sent, the completion read and the
\* call returned
C20_Witness ==
    /\ Returned("handleInFileRequest")
    /\ ~SendFailed(trace)
    /\ \E i \in 1..Len(trace) : IsRead(trace[i]) /\ trace[i].data = <<>> /\ trace[i].e = "nil"
    /\ \E i \in 1..Len(trace) : IsRead(trace[i]) /\ trace[i].data # <<>>
    /\ trace[LastRead(trace)].e = "EOF"
    /\ trace[Len(trace)].ev = "readResultOK"

====
